---------------------------- MODULE Spec2Model ----------------------------
(***************************************************************************)
(* Model of the audit-then-generate pipeline: CheckerMCP (checker_mcp.py), *)
(* GeneratorMCP (generator_mcp.py), MCPServer (mcp_server.py) and the      *)
(* driver of main.py that calls the server.                                *)
(*                                                                         *)
(* Python values are modelled as follows.                                  *)
(*   str        a TLA+ string; len, slicing and concatenation are Len,     *)
(*              SubSeq and \o on strings                                   *)
(*   dict       a function from keys to values; a key that is missing is   *)
(*              missing from the DOMAIN                                    *)
(*   list       a sequence                                                 *)
(*   Optional   None is the empty tuple << >>, a value v is <<v>>          *)
(*   exception  a string naming the exception class in the variable raised *)
(* The bullet character U+2022 of the generated description is written "*" *)
(* (one character, like the original). The product keys tags and price    *)
(* are never read by the pipeline's logic and are left out of a product.   *)
(***************************************************************************)
EXTENDS Integers, Sequences, FiniteSets, TLC

(***************************************************************************)
(* Python built-ins on str                                                 *)
(***************************************************************************)
UpperLetters == "ABCDEFGHIJKLMNOPQRSTUVWXYZ"
LowerLetters == "abcdefghijklmnopqrstuvwxyz"

\* str.lower() of every upper-case letter
UpperSet == {SubSeq(UpperLetters, i, i) : i \in 1..Len(UpperLetters)}
LowerMap ==
    [c \in UpperSet |->
        LET i == CHOOSE j \in 1..Len(UpperLetters) : SubSeq(UpperLetters, j, j) = c
        IN  SubSeq(LowerLetters, i, i)]

\* str.lower() of a single character
lower_char(c) == IF c \in UpperSet THEN LowerMap[c] ELSE c

\* str.lower()
RECURSIVE lower(_)
lower(s) ==
    IF Len(s) = 0 THEN ""
    ELSE IF Len(s) = 1 THEN lower_char(s)
    ELSE LET h == Len(s) \div 2
         IN  lower(SubSeq(s, 1, h)) \o lower(SubSeq(s, h + 1, Len(s)))

\* the characters str.strip() removes
Whitespace == {" ", "\t", "\n", "\r", "\f"}

\* str.strip()
strip(s) ==
    LET keep == {i \in 1..Len(s) : SubSeq(s, i, i) \notin Whitespace}
    IN  IF keep = {} THEN ""
        ELSE LET first == CHOOSE i \in keep : \A j \in keep : i <= j
                 last  == CHOOSE i \in keep : \A j \in keep : i >= j
             IN  SubSeq(s, first, last)

\* sub in s
Contains(sub, s) ==
    \E i \in 0..(Len(s) - Len(sub)) : SubSeq(s, i + 1, i + Len(sub)) = sub

\* s.startswith(prefix)
startswith(s, prefix) ==
    Len(s) >= Len(prefix) /\ SubSeq(s, 1, Len(prefix)) = prefix

\* sep.join(parts)
RECURSIVE join(_, _)
join(sep, parts) ==
    IF Len(parts) = 0 THEN ""
    ELSE IF Len(parts) = 1 THEN parts[1]
    ELSE parts[1] \o sep \o join(sep, Tail(parts))

\* s[:n]
Prefix(s, n) == SubSeq(s, 1, IF n < Len(s) THEN n ELSE Len(s))

\* any(k in s for k in keywords)
AnyIn(keywords, s) == \E k \in 1..Len(keywords) : Contains(keywords[k], s)

\* Optional values and dict.get
None == << >>
Some(v) == <<v>>
Get(d, key, default) == IF key \in DOMAIN d THEN d[key] ELSE default

(***************************************************************************)
(* CheckerMCP                                                              *)
(***************************************************************************)
MIN_DESCRIPTION_LENGTH == 100
MIN_SEO_TITLE_LENGTH == 30
MIN_SEO_DESCRIPTION_LENGTH == 80
MAX_SEO_DESCRIPTION_LENGTH == 160

PREMIUM_KEYWORDS == <<"premium", "luxury", "exclusive", "professional", "exceptional">>
CTA_KEYWORDS == <<"discover", "experience", "transform", "elevate", "shop now", "order", "buy">>
BENEFIT_KEYWORDS == <<"benefits", "results", "improves", "enhances", "reduces", "promotes">>
vague_terms == <<"good", "nice", "stuff", "things", "really">>

Issue(type, severity, message) ==
    [type |-> type, severity |-> severity, message |-> message]

\* found_vague holding the first vague term found only
found_vague_first(description, k) ==
    LET hits == {j \in k..Len(vague_terms) : Contains(lower(vague_terms[j]), lower(description))}
    IN  IF hits = {} THEN << >>
        ELSE <<vague_terms[CHOOSE j \in hits : \A i \in hits : j <= i]>>

\* found_vague = [term for term in vague_terms if term.lower() in description.lower()],
\* the terms from position k on
RECURSIVE found_vague_from(_, _)
found_vague_from(description, k) ==
    IF k > Len(vague_terms) THEN << >>
    ELSE (IF Contains(lower(vague_terms[k]), lower(description))
          THEN <<vague_terms[k]>> ELSE << >>)
         \o found_vague_from(description, k + 1)

\* _check_description reporting a missing description instead of, not on top of,
\* a short one
_check_description_dedup(description) ==
    LET found_vague == found_vague_from(description, 1)
    IN  (IF description = "" \/ strip(description) = ""
         THEN <<Issue("missing_description", "critical", "Product description is missing")>>
         ELSE IF Len(description) < MIN_DESCRIPTION_LENGTH
         THEN <<Issue("description_length", "high",
                      "Description too short (" \o ToString(Len(description))
                      \o " chars). Minimum: " \o ToString(MIN_DESCRIPTION_LENGTH))>>
         ELSE << >>)
        \o
        (IF Len(found_vague) > 0
         THEN <<Issue("vague_language", "medium",
                      "Contains vague terms: " \o join(", ", found_vague))>>
         ELSE << >>)

\* _check_description with the length comparison inclusive
_check_description_le(description) ==
    LET found_vague == found_vague_from(description, 1)
    IN  (IF Len(description) <= MIN_DESCRIPTION_LENGTH
         THEN <<Issue("description_length", "high",
                      "Description too short (" \o ToString(Len(description))
                      \o " chars). Minimum: " \o ToString(MIN_DESCRIPTION_LENGTH))>>
         ELSE << >>)
        \o
        (IF description = "" \/ strip(description) = ""
         THEN <<Issue("missing_description", "critical", "Product description is missing")>>
         ELSE << >>)
        \o
        (IF Len(found_vague) > 0
         THEN <<Issue("vague_language", "medium",
                      "Contains vague terms: " \o join(", ", found_vague))>>
         ELSE << >>)

\* CheckerMCP._check_description
_check_description(description) ==
    LET found_vague == found_vague_from(description, 1)
    IN  (IF Len(description) < MIN_DESCRIPTION_LENGTH
         THEN <<Issue("description_length", "high",
                      "Description too short (" \o ToString(Len(description))
                      \o " chars). Minimum: " \o ToString(MIN_DESCRIPTION_LENGTH))>>
         ELSE << >>)
        \o
        (IF description = "" \/ strip(description) = ""
         THEN <<Issue("missing_description", "critical", "Product description is missing")>>
         ELSE << >>)
        \o
        (IF Len(found_vague) > 0
         THEN <<Issue("vague_language", "medium",
                      "Contains vague terms: " \o join(", ", found_vague))>>
         ELSE << >>)

\* the seo_description branch with both length comparisons inclusive
seo_description_issues_inclusive(seo_description) ==
    IF seo_description = ""
    THEN <<Issue("seo_description_missing", "high", "SEO description is missing")>>
    ELSE IF Len(seo_description) <= MIN_SEO_DESCRIPTION_LENGTH
    THEN <<Issue("seo_description_short", "medium",
                 "SEO description too short (" \o ToString(Len(seo_description)) \o " chars)")>>
    ELSE IF Len(seo_description) >= MAX_SEO_DESCRIPTION_LENGTH
    THEN <<Issue("seo_description_long", "low",
                 "SEO description too long (" \o ToString(Len(seo_description))
                 \o " chars). Max: " \o ToString(MAX_SEO_DESCRIPTION_LENGTH))>>
    ELSE << >>

\* the tiered seo_description branch of CheckerMCP._check_seo_fields
seo_description_issues(seo_description) ==
    IF seo_description = ""
    THEN <<Issue("seo_description_missing", "high", "SEO description is missing")>>
    ELSE IF Len(seo_description) < MIN_SEO_DESCRIPTION_LENGTH
    THEN <<Issue("seo_description_short", "medium",
                 "SEO description too short (" \o ToString(Len(seo_description)) \o " chars)")>>
    ELSE IF Len(seo_description) > MAX_SEO_DESCRIPTION_LENGTH
    THEN <<Issue("seo_description_long", "low",
                 "SEO description too long (" \o ToString(Len(seo_description))
                 \o " chars). Max: " \o ToString(MAX_SEO_DESCRIPTION_LENGTH))>>
    ELSE << >>

\* _check_seo_fields falling back on the product's title for a missing SEO title
_check_seo_fields_title_default(product) ==
    LET seo_title == Get(product, "seo_title", Get(product, "title", ""))
        seo_description == Get(product, "seo_description", "")
    IN  (IF seo_title = "" \/ Len(seo_title) < MIN_SEO_TITLE_LENGTH
         THEN <<Issue("seo_title", "high", "SEO title missing or too short")>>
         ELSE << >>)
        \o seo_description_issues(seo_description)

\* CheckerMCP._check_seo_fields
_check_seo_fields(product) ==
    LET seo_title == Get(product, "seo_title", "")
        seo_description == Get(product, "seo_description", "")
    IN  (IF seo_title = "" \/ Len(seo_title) < MIN_SEO_TITLE_LENGTH
         THEN <<Issue("seo_title", "high", "SEO title missing or too short")>>
         ELSE << >>)
        \o seo_description_issues(seo_description)

\* CheckerMCP._check_tone
_check_tone(description) ==
    LET description_lower == lower(description)
        has_premium_tone == AnyIn(PREMIUM_KEYWORDS, description_lower)
    IN  IF ~has_premium_tone
        THEN <<Issue("tone_not_premium", "medium", "Missing premium/luxury brand tone")>>
        ELSE << >>

\* CheckerMCP._check_conversion_elements
_check_conversion_elements(description) ==
    LET description_lower == lower(description)
        has_cta == AnyIn(CTA_KEYWORDS, description_lower)
        has_benefits == AnyIn(BENEFIT_KEYWORDS, description_lower)
    IN  (IF ~has_cta
         THEN <<Issue("missing_cta", "medium", "Missing clear call-to-action")>>
         ELSE << >>)
        \o
        (IF ~has_benefits
         THEN <<Issue("missing_benefits", "low",
                      "Could emphasize customer benefits more clearly")>>
         ELSE << >>)

\* severities = [issue["severity"] for issue in issues]
Severities(issues) == {issues[k].severity : k \in 1..Len(issues)}

\* _calculate_severity with the high test ahead of the critical test
_calculate_severity_high_first(issues) ==
    IF Len(issues) = 0 THEN "none"
    ELSE IF "high" \in Severities(issues) THEN "high"
    ELSE IF "critical" \in Severities(issues) THEN "critical"
    ELSE IF "medium" \in Severities(issues) THEN "medium"
    ELSE "low"

\* CheckerMCP._calculate_severity
_calculate_severity(issues) ==
    IF Len(issues) = 0 THEN "none"
    ELSE IF "critical" \in Severities(issues) THEN "critical"
    ELSE IF "high" \in Severities(issues) THEN "high"
    ELSE IF "medium" \in Severities(issues) THEN "medium"
    ELSE "low"

\* the issue list of audit_product with the tone check ahead of the SEO check
audit_issues_tone_first(product) ==
    LET description == Get(product, "description", "")
    IN  _check_description(description)
        \o _check_tone(description)
        \o _check_seo_fields(product)
        \o _check_conversion_elements(description)

\* the issue list CheckerMCP.audit_product builds before it reads id and title
audit_issues(product) ==
    LET description == Get(product, "description", "")
    IN  _check_description(description)
        \o _check_seo_fields(product)
        \o _check_tone(description)
        \o _check_conversion_elements(description)

\* audit_product counting the distinct severities instead of the issues
audit_product_count_severities(product) ==
    LET issues == audit_issues(product)
    IN  [product_id |-> product["id"],
         product_title |-> product["title"],
         issues_found |-> Cardinality(Severities(issues)),
         issues |-> issues,
         severity |-> _calculate_severity(issues)]

\* CheckerMCP.audit_product, for a product that has its id and title
audit_product(product) ==
    LET issues == audit_issues(product)
    IN  [product_id |-> product["id"],
         product_title |-> product["title"],
         issues_found |-> Len(issues),
         issues |-> issues,
         severity |-> _calculate_severity(issues)]

(***************************************************************************)
(* GeneratorMCP                                                            *)
(***************************************************************************)
rewrite_triggers ==
    <<"description_length", "missing_description", "vague_language",
      "tone_not_premium", "missing_cta", "missing_benefits">>

\* issue_types = [issue["type"] for issue in issues]
IssueTypes(issues) == [k \in 1..Len(issues) |-> issues[k].type]

\* x in list
InList(x, list) == \E k \in 1..Len(list) : list[k] = x

\* _needs_description_rewrite with missing_benefits left out of the triggers
_needs_description_rewrite_short_list(issue_types) ==
    \E k \in 1..(Len(rewrite_triggers) - 1) : InList(rewrite_triggers[k], issue_types)

\* GeneratorMCP._needs_description_rewrite
_needs_description_rewrite(issue_types) ==
    \E k \in 1..Len(rewrite_triggers) : InList(rewrite_triggers[k], issue_types)

\* _generate_description choosing its benefits paragraph by the title alone
_generate_description_by_title(product) ==
    LET title == Get(product, "title", "Product")
        product_type == Get(product, "product_type", "item")
    IN  "Discover the exceptional quality of our " \o title \o ", "
        \o "a premium " \o lower(product_type)
        \o " crafted for those who appreciate excellence."
        \o (IF Contains("cream", lower(title))
            THEN "\n\nExperience transformative results with our carefully formulated blend of "
                 \o "natural ingredients. This luxurious formula deeply nourishes your skin, "
                 \o "promoting a radiant, healthy complexion while reducing the visible signs of aging."
            ELSE IF Contains("serum", lower(title))
            THEN "\n\nThis professional-grade serum delivers powerful anti-aging benefits through "
                 \o "a concentrated blend of scientifically-proven ingredients. Enhances skin elasticity, "
                 \o "reduces fine lines, and restores your skin's natural luminosity."
            ELSE "\n\nMeticulously designed to deliver exceptional results, this product combines "
                 \o "premium ingredients with expert craftsmanship to exceed your expectations.")
        \o "\n\n**Key Benefits:**\n"
        \o "* Premium, professionally-formulated ingredients\n"
        \o "* Visible results you can see and feel\n"
        \o "* Suitable for all skin types\n"
        \o "* Cruelty-free and ethically sourced"
        \o "\n\nTrusted by discerning customers worldwide, our " \o title \o " represents "
        \o "the perfect balance of luxury and effectiveness."
        \o "\n\nElevate your skincare routine today. Experience the difference that premium quality makes."

\* GeneratorMCP._generate_description
_generate_description(product) ==
    LET title == Get(product, "title", "Product")
        product_type == Get(product, "product_type", "item")
    IN  "Discover the exceptional quality of our " \o title \o ", "
        \o "a premium " \o lower(product_type)
        \o " crafted for those who appreciate excellence."
        \o (IF Contains("cream", lower(title)) \/ Contains("skincare", lower(product_type))
            THEN "\n\nExperience transformative results with our carefully formulated blend of "
                 \o "natural ingredients. This luxurious formula deeply nourishes your skin, "
                 \o "promoting a radiant, healthy complexion while reducing the visible signs of aging."
            ELSE IF Contains("serum", lower(title))
            THEN "\n\nThis professional-grade serum delivers powerful anti-aging benefits through "
                 \o "a concentrated blend of scientifically-proven ingredients. Enhances skin elasticity, "
                 \o "reduces fine lines, and restores your skin's natural luminosity."
            ELSE "\n\nMeticulously designed to deliver exceptional results, this product combines "
                 \o "premium ingredients with expert craftsmanship to exceed your expectations.")
        \o "\n\n**Key Benefits:**\n"
        \o "* Premium, professionally-formulated ingredients\n"
        \o "* Visible results you can see and feel\n"
        \o "* Suitable for all skin types\n"
        \o "* Cruelty-free and ethically sourced"
        \o "\n\nTrusted by discerning customers worldwide, our " \o title \o " represents "
        \o "the perfect balance of luxury and effectiveness."
        \o "\n\nElevate your skincare routine today. Experience the difference that premium quality makes."

\* _generate_seo_title cutting the title without vendor down to 60 characters
_generate_seo_title_truncated(product) ==
    LET title == Get(product, "title", "")
        vendor == Get(product, "vendor", "")
        benefit == IF Contains("cream", lower(title)) THEN "Nourishing & Anti-Aging"
                   ELSE IF Contains("serum", lower(title))
                   THEN "Professional Anti-Aging Treatment"
                   ELSE "Premium Quality"
        base == title \o " | " \o benefit
        seo_title == IF vendor # "" THEN base \o " | " \o vendor ELSE base
    IN  IF Len(seo_title) > 60 THEN Prefix(base, 60) ELSE seo_title

\* GeneratorMCP._generate_seo_title
_generate_seo_title(product) ==
    LET title == Get(product, "title", "")
        vendor == Get(product, "vendor", "")
        benefit == IF Contains("cream", lower(title)) THEN "Nourishing & Anti-Aging"
                   ELSE IF Contains("serum", lower(title))
                   THEN "Professional Anti-Aging Treatment"
                   ELSE "Premium Quality"
        base == title \o " | " \o benefit
        seo_title == IF vendor # "" THEN base \o " | " \o vendor ELSE base
    IN  IF Len(seo_title) > 60 THEN base ELSE seo_title

\* GeneratorMCP._generate_seo_description
_generate_seo_description(product) ==
    LET title == Get(product, "title", "")
        seo_desc ==
            IF Contains("cream", lower(title))
            THEN "Experience premium " \o lower(title) \o " with natural ingredients. "
                 \o "Nourishes, protects, and rejuvenates your skin. Shop our luxury skincare collection."
            ELSE IF Contains("serum", lower(title))
            THEN "Professional-grade " \o lower(title) \o " delivers powerful anti-aging results. "
                 \o "Reduce fine lines and restore radiance. Premium quality guaranteed."
            ELSE "Discover our premium " \o lower(title) \o " - exceptional quality and results. "
                 \o "Trusted by customers worldwide. Shop now for exclusive offers."
    IN  IF Len(seo_desc) > MAX_SEO_DESCRIPTION_LENGTH
        THEN Prefix(seo_desc, 157) \o "..."
        ELSE seo_desc

\* the SEO description trigger firing on the exact type seo_description only
AnySeoDescription_exact(issue_types) == InList("seo_description", issue_types)

\* any(t.startswith("seo_description") for t in issue_types)
AnySeoDescription(issue_types) ==
    \E k \in 1..Len(issue_types) : startswith(issue_types[k], "seo_description")

\* generate_optimized_content noting the SEO title ahead of the description
generate_optimized_content_title_note_first(product, issues) ==
    LET issue_types == IssueTypes(issues)
        rewrite == _needs_description_rewrite(issue_types)
        newtitle == InList("seo_title", issue_types)
        newdesc == AnySeoDescription(issue_types)
    IN  [product_id |-> product["id"],
         original_description |-> Get(product, "description", ""),
         optimized_description |->
             IF rewrite THEN Some(_generate_description(product)) ELSE None,
         optimized_seo_title |->
             IF newtitle THEN Some(_generate_seo_title(product)) ELSE None,
         optimized_seo_description |->
             IF newdesc THEN Some(_generate_seo_description(product)) ELSE None,
         improvements_made |->
             (IF newtitle THEN <<"Created SEO-optimized title">> ELSE << >>)
             \o (IF rewrite THEN <<"Rewrote product description with premium tone">> ELSE << >>)
             \o (IF newdesc THEN <<"Created SEO meta description">> ELSE << >>)]

\* GeneratorMCP.generate_optimized_content
generate_optimized_content(product, issues) ==
    LET issue_types == IssueTypes(issues)
        rewrite == _needs_description_rewrite(issue_types)
        newtitle == InList("seo_title", issue_types)
        newdesc == AnySeoDescription(issue_types)
    IN  [product_id |-> product["id"],
         original_description |-> Get(product, "description", ""),
         optimized_description |->
             IF rewrite THEN Some(_generate_description(product)) ELSE None,
         optimized_seo_title |->
             IF newtitle THEN Some(_generate_seo_title(product)) ELSE None,
         optimized_seo_description |->
             IF newdesc THEN Some(_generate_seo_description(product)) ELSE None,
         improvements_made |->
             (IF rewrite THEN <<"Rewrote product description with premium tone">> ELSE << >>)
             \o (IF newtitle THEN <<"Created SEO-optimized title">> ELSE << >>)
             \o (IF newdesc THEN <<"Created SEO meta description">> ELSE << >>)]

(***************************************************************************)
(* MCPServer                                                               *)
(***************************************************************************)
\* _determine_priority with the count threshold of the high branch off by one
_determine_priority_gt5(audit_result) ==
    LET severity == Get(audit_result, "severity", "none")
        issue_count == Get(audit_result, "issues_found", 0)
    IN  IF severity = "critical" THEN "critical"
        ELSE IF severity = "high" \/ issue_count > 5 THEN "high"
        ELSE IF severity = "medium" \/ issue_count >= 3 THEN "medium"
        ELSE IF issue_count > 0 THEN "low"
        ELSE "none"

\* _determine_priority with the count threshold of the medium branch at two
_determine_priority_medium_at_2(audit_result) ==
    LET severity == Get(audit_result, "severity", "none")
        issue_count == Get(audit_result, "issues_found", 0)
    IN  IF severity = "critical" THEN "critical"
        ELSE IF severity = "high" \/ issue_count >= 5 THEN "high"
        ELSE IF severity = "medium" \/ issue_count >= 2 THEN "medium"
        ELSE IF issue_count > 0 THEN "low"
        ELSE "none"

\* MCPServer._determine_priority
_determine_priority(audit_result) ==
    LET severity == Get(audit_result, "severity", "none")
        issue_count == Get(audit_result, "issues_found", 0)
    IN  IF severity = "critical" THEN "critical"
        ELSE IF severity = "high" \/ issue_count >= 5 THEN "high"
        ELSE IF severity = "medium" \/ issue_count >= 3 THEN "medium"
        ELSE IF issue_count > 0 THEN "low"
        ELSE "none"

\* the condition of step 3 requiring more than one issue
needs_optimization_gt1(audit_result) == audit_result["issues_found"] > 1

\* the condition of step 3 of MCPServer.process_single_product
needs_optimization(audit_result) == audit_result["issues_found"] > 0

\* MCPServer.process_single_product, for a product that has its id and title
process_single_product(product) ==
    LET audit_result == audit_product(product)
    IN  [product_id |-> product["id"],
         product_title |-> product["title"],
         audit |-> audit_result,
         optimization |->
             IF needs_optimization(audit_result)
             THEN Some(generate_optimized_content(product, audit_result["issues"]))
             ELSE None,
         action_required |-> needs_optimization(audit_result),
         priority |-> _determine_priority(audit_result)]

\* product["id"] and product["title"] raise KeyError on a product without the key
\* (checker_mcp.py lines 56-57, reached first on every path)
raises_KeyError(product) ==
    "id" \notin DOMAIN product \/ "title" \notin DOMAIN product

\* the turns of the loop of process_products that complete: the products ahead of
\* the first one that raises
completed(products) ==
    LET raising == {k \in 1..Len(products) : raises_KeyError(products[k])}
    IN  IF raising = {} THEN Len(products)
        ELSE (CHOOSE k \in raising : \A j \in raising : k <= j) - 1

\* process_products handing back the results last product first
process_products_reversed(products) ==
    [k \in 1..completed(products) |->
        process_single_product(products[completed(products) + 1 - k])]

\* MCPServer.process_products: the list results that the loop builds, and returns
\* when no product raises
process_products(products) ==
    [k \in 1..completed(products) |-> process_single_product(products[k])]

\* process_products with the KeyError swallowed: the loop ends at the product that
\* raises and the results so far are returned
process_products_raises_never(products) == FALSE

\* whether MCPServer.process_products raises: the loop has no handler
process_products_raises(products) ==
    \E k \in 1..Len(products) : raises_KeyError(products[k])

\* the count of products with issues taking every result
RECURSIVE CountWithIssues_all(_)
CountWithIssues_all(results) ==
    IF Len(results) = 0 THEN 0
    ELSE (IF Head(results)["audit"]["issues_found"] >= 0 THEN 1 ELSE 0)
         + CountWithIssues_all(Tail(results))

\* sum(1 for r in results if r["audit"]["issues_found"] > 0)
RECURSIVE CountWithIssues(_)
CountWithIssues(results) ==
    IF Len(results) = 0 THEN 0
    ELSE (IF Head(results)["audit"]["issues_found"] > 0 THEN 1 ELSE 0)
         + CountWithIssues(Tail(results))

\* sum(r["audit"]["issues_found"] for r in results)
RECURSIVE SumIssues(_)
SumIssues(results) ==
    IF Len(results) = 0 THEN 0
    ELSE Head(results)["audit"]["issues_found"] + SumIssues(Tail(results))

PriorityLevels == {"critical", "high", "medium", "low", "none"}

\* the loop priority_counts[priority] += 1 over the zero-filled dict
RECURSIVE CountPriorities(_, _)
CountPriorities(results, priority_counts) ==
    IF Len(results) = 0 THEN priority_counts
    ELSE LET priority == Get(Head(results), "priority", "none")
         IN  CountPriorities(Tail(results),
                 [priority_counts EXCEPT ![priority] = priority_counts[priority] + 1])

\* f"{x:.1f}%" for x = total / total * 100 (or 0), computed in tenths
completion_rate(total_products) ==
    LET tenths == IF total_products > 0
                  THEN (total_products * 1000) \div total_products
                  ELSE 0
    IN  ToString(tenths \div 10) \o "." \o ToString(tenths % 10) \o "%"

\* the value MCPServer.get_statistics reports as products_optimized
products_optimized(products_with_issues) == products_with_issues

\* MCPServer.get_statistics
get_statistics(results) ==
    LET total_products == Len(results)
        products_with_issues == CountWithIssues(results)
        total_issues == SumIssues(results)
    IN  [total_products_processed |-> total_products,
         products_with_issues |-> products_with_issues,
         products_optimized |-> products_optimized(products_with_issues),
         total_issues_found |-> total_issues,
         priority_breakdown |->
             CountPriorities(results, [p \in PriorityLevels |-> 0]),
         completion_rate |-> completion_rate(total_products)]

priority_order == <<"none", "low", "medium", "high", "critical">>

\* priority_order.index(x), for x in the list
index(x) == CHOOSE k \in 1..Len(priority_order) : priority_order[k] = x

\* the index lookup falling back to the default threshold "low"
min_priority_index_default(min_priority) ==
    IF InList(min_priority, priority_order) THEN Some(index(min_priority))
    ELSE Some(index("low"))

\* min_priority_index = priority_order.index(min_priority); None stands for the
\* ValueError list.index raises for a value that is not in the list
min_priority_index(min_priority) ==
    IF InList(min_priority, priority_order) THEN Some(index(min_priority)) ELSE None

\* the filter test with a strict comparison
passes_filter_strict(result, threshold) == index(result["priority"]) > threshold

\* the test of the list comprehension in MCPServer.process_batch_with_filters
passes_filter(result, threshold) == index(result["priority"]) >= threshold

\* [result for result in all_results if ...]
RECURSIVE filter_results(_, _)
filter_results(all_results, threshold) ==
    IF Len(all_results) = 0 THEN << >>
    ELSE (IF passes_filter(Head(all_results), threshold)
          THEN <<Head(all_results)>> ELSE << >>)
         \o filter_results(Tail(all_results), threshold)

\* truth value of an Optional[str]: None and "" are falsy
Truthy(opt) == opt # None /\ opt[1] # ""

\* the updates dict MCPServer.export_for_shopify fills from an optimization
export_updates(optimization) ==
    LET keys == (IF Truthy(Get(optimization, "optimized_description", None))
                 THEN {"description"} ELSE {})
                \cup (IF Truthy(Get(optimization, "optimized_seo_title", None))
                      THEN {"seo_title"} ELSE {})
                \cup (IF Truthy(Get(optimization, "optimized_seo_description", None))
                      THEN {"seo_description"} ELSE {})
    IN  [f \in keys |->
            IF f = "description" THEN optimization["optimized_description"][1]
            ELSE IF f = "seo_title" THEN optimization["optimized_seo_title"][1]
            ELSE optimization["optimized_seo_description"][1]]

\* export_for_shopify returning the payload whether or not it has updates
export_for_shopify_always(result) ==
    IF Get(result, "optimization", None) = None THEN None
    ELSE Some([product_id |-> result["product_id"],
               updates |-> export_updates(result["optimization"][1])])

\* MCPServer.export_for_shopify; an optimization is None or a dict that has keys
export_for_shopify(result) ==
    IF Get(result, "optimization", None) = None THEN None
    ELSE LET optimization == result["optimization"][1]
             payload == [product_id |-> result["product_id"],
                         updates |-> export_updates(optimization)]
         IN  IF DOMAIN payload["updates"] # {} THEN Some(payload) ELSE None

(***************************************************************************)
(* Inputs                                                                  *)
(***************************************************************************)
\* n characters of filler that matches no keyword
RECURSIVE Pad(_)
Pad(n) ==
    IF n <= 0 THEN ""
    ELSE IF n = 1 THEN "z"
    ELSE Pad(n \div 2) \o Pad(n - n \div 2)

\* s filled up to n characters
PadTo(s, n) == s \o Pad(n - Len(s))

\* n spaces
RECURSIVE Spaces(_)
Spaces(n) ==
    IF n <= 0 THEN ""
    ELSE IF n = 1 THEN " "
    ELSE Spaces(n \div 2) \o Spaces(n - n \div 2)

\* shopify_mock.get_mock_products
get_mock_products ==
    << [id |-> "prod_001", title |-> "Organic Face Cream",
        description |-> "Good cream for your face. Made with natural stuff.",
        vendor |-> "LuxeBeauty", product_type |-> "Skincare",
        seo_title |-> "", seo_description |-> ""],
       [id |-> "prod_002", title |-> "Anti-Aging Serum Premium Formula",
        description |-> "Our serum is really good and will make you look younger. "
                        \o "It has vitamins and other ingredients that are beneficial. "
                        \o "Many customers like it. Buy now.",
        vendor |-> "LuxeBeauty", product_type |-> "Skincare",
        seo_title |-> "Anti-Aging Serum", seo_description |-> "Good serum"] >>

\* description texts: every combination of a premium word, a call to action, a
\* benefit word and vague terms at the minimum length; two texts one character
\* under it; the empty description, a short and a long one of whitespace only; the
\* mock texts
DescriptionParts ==
    {p \o c \o b \o v : p \in {"", "A Premium blend. "}, c \in {"", "Discover it today. "},
                        b \in {"", "Promotes calm. "}, v \in {"", "Really nice stuff. "}}
Descriptions ==
    {PadTo(d, MIN_DESCRIPTION_LENGTH) : d \in DescriptionParts}
    \cup {PadTo(d, MIN_DESCRIPTION_LENGTH - 1) :
             d \in {"", "A Premium blend. Discover it today. Promotes calm. "}}
    \cup {"", "  \n ", Spaces(MIN_DESCRIPTION_LENGTH)}
    \cup {get_mock_products[k]["description"] : k \in 1..Len(get_mock_products)}

\* SEO titles: empty, one under the minimum, the minimum
SeoTitles == {"", Pad(MIN_SEO_TITLE_LENGTH - 1), Pad(MIN_SEO_TITLE_LENGTH)}

\* SEO descriptions: empty and the lengths around both thresholds
SeoDescriptions ==
    {"", "Good serum"}
    \cup {Pad(n) : n \in {MIN_SEO_DESCRIPTION_LENGTH - 1, MIN_SEO_DESCRIPTION_LENGTH,
                          MAX_SEO_DESCRIPTION_LENGTH, MAX_SEO_DESCRIPTION_LENGTH + 1}}

\* title, vendor and product type: one of each content category
Contexts ==
    { [title |-> "Organic Face Cream", vendor |-> "LuxeBeauty", product_type |-> "Skincare"],
      [title |-> "Anti-Aging Serum Premium Formula", vendor |-> "LuxeBeauty",
       product_type |-> "Treatments"],
      [title |-> "Silk Sleep Mask", vendor |-> "", product_type |-> "Accessories"] }

\* single products over every combination of the field values
WideProducts ==
    { [id |-> "p1", title |-> c.title, vendor |-> c.vendor, product_type |-> c.product_type,
       description |-> d, seo_title |-> t, seo_description |-> s] :
      c \in Contexts, d \in Descriptions, t \in SeoTitles, s \in SeoDescriptions }

\* a product with no issue, one with a single low issue, one with a critical issue
CleanDescription ==
    PadTo("A Premium blend. Discover it today. Promotes calm. ", MIN_DESCRIPTION_LENGTH)
CleanProduct ==
    [id |-> "prod_003", title |-> "Silk Sleep Mask", vendor |-> "", product_type |-> "Accessories",
     description |-> CleanDescription, seo_title |-> Pad(MIN_SEO_TITLE_LENGTH),
     seo_description |-> Pad(MIN_SEO_DESCRIPTION_LENGTH)]
LowProduct ==
    [CleanProduct EXCEPT !["id"] = "prod_004",
                         !["seo_description"] = Pad(MAX_SEO_DESCRIPTION_LENGTH + 1)]
CriticalProduct ==
    [CleanProduct EXCEPT !["id"] = "prod_005", !["description"] = ""]

\* a product without its id
NoIdProduct ==
    [k \in DOMAIN CleanProduct \ {"id"} |-> CleanProduct[k]]

\* a product without its title
NoTitleProduct ==
    [k \in DOMAIN CleanProduct \ {"title"} |->
        IF k = "id" THEN "prod_008" ELSE CleanProduct[k]]

\* the products that batches of several are made of
BatchProducts ==
    {get_mock_products[1], CleanProduct, LowProduct, CriticalProduct, NoIdProduct}

MaxBatch == 3

RECURSIVE SeqsUpTo(_, _)
SeqsUpTo(S, n) ==
    IF n = 0 THEN {<< >>}
    ELSE LET shorter == SeqsUpTo(S, n - 1)
         IN  shorter \cup {Append(q, x) : q \in {r \in shorter : Len(r) = n - 1}, x \in S}

\* a product whose description is one character under the minimum
ShortProduct ==
    [CleanProduct EXCEPT !["id"] = "prod_006",
                         !["description"] = PadTo("A Premium blend. Discover it today. Promotes calm. ",
                                                  MIN_DESCRIPTION_LENGTH - 1)]

\* the first mock product with an empty title
UntitledProduct ==
    [get_mock_products[1] EXCEPT !["id"] = "prod_007", !["title"] = ""]

\* the second mock product without some or all of its optional text fields
OptionalTextFields == {"description", "seo_title", "seo_description"}
SparseProducts ==
    {[k \in DOMAIN get_mock_products[2] \ missing |->
         IF k = "id" THEN "prod_009" ELSE get_mock_products[2][k]] :
        missing \in SUBSET OptionalTextFields \ {{}}}

\* the first mock product with a short title of the generic category and no
\* vendor, and with a title that holds a vague term
ShortTitleProduct ==
    [get_mock_products[1] EXCEPT !["id"] = "prod_010", !["title"] = "Lip Balm",
                                 !["vendor"] = ""]
VagueTitleProduct ==
    [get_mock_products[1] EXCEPT !["id"] = "prod_011", !["title"] = "Goodnight Cream"]

\* products at the edges of the input contract, and the batches that hold one of
\* them alone, after and ahead of a well-formed product
EdgeProducts ==
    {ShortProduct, UntitledProduct, NoTitleProduct, ShortTitleProduct, VagueTitleProduct}
    \cup SparseProducts
EdgeBatches ==
    {<<e>> : e \in EdgeProducts}
    \cup {<<CleanProduct, e>> : e \in EdgeProducts}
    \cup {<<e, CleanProduct>> : e \in EdgeProducts}

\* the batches handed to the server
Batches ==
    SeqsUpTo(BatchProducts, MaxBatch)
    \cup {<<p>> : p \in WideProducts}
    \cup {get_mock_products}
    \cup EdgeBatches

\* the thresholds handed to process_batch_with_filters
MinPriorities == {"none", "low", "medium", "high", "critical", "urgent"}

\* audit results handed to _determine_priority alone: every severity with every count
MaxIssues == 8
AuditResults ==
    {[severity |-> sev, issues_found |-> n] : sev \in PriorityLevels, n \in 0..MaxIssues}

\* issue lists handed to generate_optimized_content alone: the auditor's issue types
\* and three near misses of the triggers
MaxIssueList == 2
IssueTypePool ==
    {"description_length", "missing_description", "vague_language", "seo_title",
     "seo_description_missing", "seo_description_short", "seo_description_long",
     "tone_not_premium", "missing_cta", "missing_benefits",
     "seo_description", "seo_descriptio", "seo_title_short"}
IssueLists ==
    SeqsUpTo({Issue(t, "medium", "") : t \in IssueTypePool}, MaxIssueList)

\* products handed to generate_optimized_content alone: titles of every content
\* category (none, one in capitals, both keywords at once), titles that bring the
\* generic SEO description to 120, 160 and 161 characters, no title at all; no
\* vendor, the mock vendor, and vendors that bring the SEO title of the sleep mask
\* to 60 and 61 characters; a product type with and without "skincare"
Titles ==
    {"", "Organic Face Cream", "Anti-Aging Serum Premium Formula", "Silk Sleep Mask",
     "Night Cream Serum", "SERUM", Pad(1), Pad(41), Pad(42)}
Vendors == {"", "LuxeBeauty", Pad(24), Pad(25)}
ProductTypes == {"Skincare", "Accessories"}
GeneratorProducts ==
    {[id |-> "g1", title |-> t, vendor |-> v, product_type |-> y] :
        t \in Titles, v \in Vendors, y \in ProductTypes}
    \cup {[id |-> "g0"]}

\* the calls made on a single method
UnitCalls ==
    {[fn |-> "_determine_priority", audit_result |-> a] : a \in AuditResults}
    \cup {[fn |-> "generate_optimized_content", product |-> get_mock_products[2],
           issues |-> i] : i \in IssueLists}
    \cup {[fn |-> "generate_optimized_content", product |-> p,
           issues |-> audit_issues(get_mock_products[1])] : p \in GeneratorProducts}

(***************************************************************************)
(* The driver (main.py): load the products, process them, report the       *)
(* statistics, export every result, then run the filtered batch. A caller  *)
(* may also run the filtered batch on the loaded products at once, apply   *)
(* the exported payloads and run a second round on the updated products,   *)
(* or call a single method with arguments of its own.                      *)
(***************************************************************************)
VARIABLES
    products,      \* the batch
    pc,            \* where the caller is
    results,       \* process_products' return value
    stats,         \* get_statistics' return value, None before the call
    payloads,      \* export_for_shopify's return values, one per result so far
    min_priority,  \* the threshold of the filtered run, None before the call
    filtered,      \* process_batch_with_filters' return value, None before it returns
    raised,        \* the exception that ended the run, "" when none
    call,          \* a call of a single method: its name and arguments, or None
    ret            \* that call's return value, None before it returns

vars == <<products, pc, results, stats, payloads, min_priority, filtered, raised, call, ret>>

Init ==
    /\ results = << >>
    /\ stats = None
    /\ payloads = << >>
    /\ min_priority = None
    /\ filtered = None
    /\ raised = ""
    /\ ret = None
    /\ \/ /\ products \in Batches
          /\ pc = "loaded"
          /\ call = None
       \/ /\ products = << >>
          /\ pc = "call"
          /\ call \in {Some(c) : c \in UnitCalls}

\* results = mcp_server.process_products(products)
ProcessProducts ==
    /\ pc = "loaded"
    /\ IF process_products_raises(products)
       THEN /\ raised' = "KeyError"
            /\ pc' = "failed"
            /\ UNCHANGED results
       ELSE /\ results' = process_products(products)
            /\ pc' = "processed"
            /\ UNCHANGED raised
    /\ UNCHANGED <<products, stats, payloads, min_priority, filtered, call, ret>>

\* stats = mcp_server.get_statistics(results)
GetStatistics ==
    /\ pc = "processed"
    /\ stats' = Some(get_statistics(results))
    /\ pc' = "export"
    /\ UNCHANGED <<products, results, payloads, min_priority, filtered, raised, call, ret>>

\* one turn of the loop: payload = mcp_server.export_for_shopify(result)
ExportForShopify ==
    /\ pc = "export"
    /\ Len(payloads) < Len(results)
    /\ payloads' = Append(payloads, export_for_shopify(results[Len(payloads) + 1]))
    /\ UNCHANGED <<products, pc, results, stats, min_priority, filtered, raised, call, ret>>

\* mcp_server.process_batch_with_filters(products, min_priority=mp): the index of the
\* threshold is looked up first, then the whole batch is processed again and filtered
ProcessBatchWithFilters ==
    /\ \/ pc = "loaded"
       \/ pc = "export" /\ Len(payloads) = Len(results)
    /\ \E mp \in MinPriorities :
        /\ min_priority' = Some(mp)
        /\ IF min_priority_index(mp) = None
           THEN /\ raised' = "ValueError"
                /\ pc' = "failed"
                /\ UNCHANGED filtered
           ELSE IF process_products_raises(products)
           THEN /\ raised' = "KeyError"
                /\ pc' = "failed"
                /\ UNCHANGED filtered
           ELSE /\ filtered' = Some(filter_results(process_products(products),
                                                   min_priority_index(mp)[1]))
                /\ pc' = "done"
                /\ UNCHANGED raised
    /\ UNCHANGED <<products, results, stats, payloads, call, ret>>

\* the Shopify update a payload is exported for: the product with the fields of
\* payload["updates"] replaced, unchanged when there is no payload
apply_updates(product, payload) ==
    IF payload = None THEN product
    ELSE [k \in DOMAIN product \cup DOMAIN payload[1]["updates"] |->
             IF k \in DOMAIN payload[1]["updates"] THEN payload[1]["updates"][k]
             ELSE product[k]]

\* a second round: every exported payload is applied to its product and the updated
\* batch is processed, reported and exported like the first
UpdateAndProcessAgain ==
    /\ pc = "export"
    /\ Len(payloads) = Len(results)
    /\ products' = [k \in 1..Len(products) |-> apply_updates(products[k], payloads[k])]
    /\ results' = process_products(products')
    /\ stats' = Some(get_statistics(results'))
    /\ payloads' = [k \in 1..Len(results') |-> export_for_shopify(results'[k])]
    /\ pc' = "reprocessed"
    /\ UNCHANGED <<min_priority, filtered, raised, call, ret>>

\* a call of MCPServer._determine_priority on an audit result
DeterminePriority ==
    /\ pc = "call"
    /\ call[1]["fn"] = "_determine_priority"
    /\ ret' = Some(_determine_priority(call[1]["audit_result"]))
    /\ pc' = "returned"
    /\ UNCHANGED <<products, results, stats, payloads, min_priority, filtered, raised, call>>

\* a call of GeneratorMCP.generate_optimized_content on a product and an issue list
GenerateOptimizedContent ==
    /\ pc = "call"
    /\ call[1]["fn"] = "generate_optimized_content"
    /\ ret' = Some(generate_optimized_content(call[1]["product"], call[1]["issues"]))
    /\ pc' = "generated"
    /\ UNCHANGED <<products, results, stats, payloads, min_priority, filtered, raised, call>>

\* export_for_shopify on a result that carries the optimization just generated
ExportGenerated ==
    /\ pc = "generated"
    /\ payloads' = <<export_for_shopify([product_id |-> ret[1]["product_id"],
                                         optimization |-> ret])>>
    /\ pc' = "returned"
    /\ UNCHANGED <<products, results, stats, min_priority, filtered, raised, call, ret>>

Next ==
    \/ ProcessProducts
    \/ GetStatistics
    \/ ExportForShopify
    \/ ProcessBatchWithFilters
    \/ UpdateAndProcessAgain
    \/ DeterminePriority
    \/ GenerateOptimizedContent
    \/ ExportGenerated

Spec == Init /\ [][Next]_vars

(***************************************************************************)
(* Properties                                                              *)
(***************************************************************************)
Rank == [none |-> 0, low |-> 1, medium |-> 2, high |-> 3, critical |-> 4]

\* every <<severity, issues_found, priority>> that _determine_priority has related:
\* in a call of its own and in the results of the batch
PriorityObservations ==
    (IF pc = "returned" /\ call[1]["fn"] = "_determine_priority"
     THEN {<<call[1]["audit_result"]["severity"],
             call[1]["audit_result"]["issues_found"], ret[1]>>}
     ELSE {})
    \cup {<<results[k]["audit"]["severity"], results[k]["audit"]["issues_found"],
            results[k]["priority"]>> : k \in 1..Len(results)}

\* the branches of the priority rule, top to bottom, first match wins
FirstMatch(sev, n, p) ==
    /\ sev = "critical" => p = "critical"
    /\ sev # "critical" /\ (sev = "high" \/ n >= 5) => p = "high"
    /\ sev \notin {"critical", "high"} /\ n < 5 /\ (sev = "medium" \/ n >= 3)
           => p = "medium"
    /\ sev \notin {"critical", "high", "medium"} /\ n < 3 /\ n > 0 => p = "low"
    /\ sev \notin {"critical", "high", "medium"} /\ n <= 0 => p = "none"

\* C1 (as amended): the priority follows the first matching branch (critical severity;
\* high severity or 5 issues and more; medium severity or 3 issues and more; any issue;
\* none), and 5 issues or more give priority high whenever the severity is not
\* critical, also when it is low or medium.
C1_FirstMatchWins ==
    \A o \in PriorityObservations :
        /\ FirstMatch(o[1], o[2], o[3])
        /\ o[2] >= 5 /\ o[1] # "critical" => o[3] = "high"

\* C1 witness: a low severity with 5 issues or more was given priority high
C1_Witness ==
    \E o \in PriorityObservations : o[1] = "low" /\ o[2] >= 5 /\ o[3] = "high"

\* C1 as stated: first match wins, and priority high whenever issues_found >= 5
C1_Original ==
    \A o \in PriorityObservations :
        /\ FirstMatch(o[1], o[2], o[3])
        /\ o[2] >= 5 => o[3] = "high"

\* the highest rank among the severities of an issue list
MaxRank(issues) ==
    CHOOSE m \in {Rank[issues[j]["severity"]] : j \in 1..Len(issues)} :
        \A j \in 1..Len(issues) : Rank[issues[j]["severity"]] <= m

\* C2: the aggregate severity of every audit is the highest-ranked severity among its
\* issues (critical > high > medium > low), none for an empty list, and critical as
\* soon as one issue is critical.
C2_AggregateSeverity ==
    \A k \in 1..Len(results) :
        LET audit == results[k]["audit"]
            issues == audit["issues"]
        IN  /\ Len(issues) = 0 => audit["severity"] = "none"
            /\ Len(issues) > 0 =>
                   /\ audit["severity"] # "none"
                   /\ Rank[audit["severity"]] = MaxRank(issues)
            /\ (\E j \in 1..Len(issues) : issues[j]["severity"] = "critical")
                   => audit["severity"] = "critical"

\* C2 witness: an audit with one critical issue among five or more issues of other
\* severities is critical
C2_Witness ==
    \E k \in 1..Len(results) :
        LET audit == results[k]["audit"]
            issues == audit["issues"]
        IN  /\ Cardinality({j \in 1..Len(issues) : issues[j]["severity"] = "critical"}) = 1
            /\ Cardinality({j \in 1..Len(issues) : issues[j]["severity"] = "high"}) >= 2
            /\ Len(issues) >= 6
            /\ audit["severity"] = "critical"

\* C3: in every result, issues_found > 0, action_required and a present optimization
\* are equivalent; with no issue the optimization is absent, with issues it is the
\* generator's output for the product and the audit's issue list.
C3_OptimizationIffIssues ==
    \A k \in 1..Len(results) :
        LET r == results[k]
            found == r["audit"]["issues_found"] > 0
        IN  /\ found = r["action_required"]
            /\ r["action_required"] = (r["optimization"] # None)
            /\ ~found => r["optimization"] = None
            /\ found => r["optimization"] =
                   Some(generate_optimized_content(products[k], r["audit"]["issues"]))

\* C3 witness: a batch with a result without issues and a result with exactly one
C3_Witness ==
    /\ Len(results) = 2
    /\ results[1]["audit"]["issues_found"] = 0
    /\ results[1]["optimization"] = None
    /\ ~results[1]["action_required"]
    /\ results[2]["audit"]["issues_found"] = 1
    /\ results[2]["optimization"] # None
    /\ results[2]["action_required"]

\* every <<issue list, optimization>> that generate_optimized_content has related:
\* in a call of its own and in the results of the batch
GeneratorObservations ==
    (IF pc \in {"generated", "returned"} /\ call[1]["fn"] = "generate_optimized_content"
     THEN {<<call[1]["issues"], ret[1]>>}
     ELSE {})
    \cup {<<results[k]["audit"]["issues"], results[k]["optimization"][1]>> :
            k \in {j \in 1..Len(results) : results[j]["optimization"] # None}}

TypeSet(issues) == {issues[j]["type"] : j \in 1..Len(issues)}

\* C4: each optimized field is gated on its own: the description iff an issue type
\* is one of the six rewrite triggers, the SEO title iff the type seo_title is
\* present, the SEO description iff a type starts with seo_description; a field
\* whose trigger did not fire is None.
C4_IndependentGates ==
    \A o \in GeneratorObservations :
        LET types == TypeSet(o[1])
            opt == o[2]
        IN  /\ (opt["optimized_description"] # None) =
                   (types \cap {"description_length", "missing_description",
                                "vague_language", "tone_not_premium", "missing_cta",
                                "missing_benefits"} # {})
            /\ (opt["optimized_seo_title"] # None) = ("seo_title" \in types)
            /\ (opt["optimized_seo_description"] # None) =
                   (\E t \in types : Len(t) >= 15 /\ SubSeq(t, 1, 15) = "seo_description")
            /\ \A f \in {"optimized_description", "optimized_seo_title",
                         "optimized_seo_description"} :
                   opt[f] = None \/ (Len(opt[f]) = 1 /\ opt[f][1] # "")

\* C4 witness: for the issue list <<missing_benefits, seo_description>> the description
\* and the SEO description are set and the SEO title is None
C4_Witness ==
    \E o \in GeneratorObservations :
        /\ TypeSet(o[1]) = {"missing_benefits", "seo_description"}
        /\ o[2]["optimized_description"] # None
        /\ o[2]["optimized_seo_title"] = None
        /\ o[2]["optimized_seo_description"] # None

\* the results the filtered run is compared with: those process_products returned
\* when the caller ran it before, those it returns for the batch otherwise
AllResults == IF stats # None THEN results ELSE process_products(products)

\* the positions of the results whose priority is at least the threshold
Kept(all, threshold) ==
    {k \in 1..Len(all) : Rank[all[k]["priority"]] >= Rank[threshold]}

\* the j-th smallest element of a set of positions
Nth(S, j) == CHOOSE k \in S : Cardinality({i \in S : i <= k}) = j

\* C5: the filtered run returns exactly the results of process_products whose
\* priority ranks at or above the threshold on none < low < medium < high < critical,
\* in their original order; for the threshold high, those that are high or critical.
C5_FilterByRank ==
    filtered # None =>
        LET f == filtered[1]
            keep == Kept(AllResults, min_priority[1])
        IN  /\ Len(f) = Cardinality(keep)
            /\ \A j \in 1..Len(f) : f[j] = AllResults[Nth(keep, j)]
            /\ min_priority[1] = "high" =>
                   keep = {k \in 1..Len(AllResults) :
                              AllResults[k]["priority"] \in {"high", "critical"}}

\* C5 witness: with the threshold high, the first and the third of three results are
\* returned, in this order, and the second is not
C5_Witness ==
    /\ filtered # None
    /\ min_priority = Some("high")
    /\ Len(results) = 3
    /\ results[1]["priority"] = "critical"
    /\ results[2]["priority"] = "low"
    /\ results[3]["priority"] = "high"
    /\ filtered[1] = <<results[1], results[3]>>

\* C6: a threshold that is not one of the five levels makes the filtered run fail
\* with ValueError for every batch; nothing is returned.
C6_UnknownThresholdFails ==
    (min_priority # None /\ min_priority[1] \notin {"none", "low", "medium", "high", "critical"})
        => (raised = "ValueError" /\ filtered = None /\ pc = "failed")

\* C6 witness: the empty batch with the threshold urgent has raised ValueError
C6_Witness ==
    /\ products = << >>
    /\ min_priority = Some("urgent")
    /\ raised = "ValueError"
    /\ filtered = None

\* every <<optimization or None, product id, payload or None>> that export_for_shopify
\* has related: for the results of the batch and for a generated optimization
ExportObservations ==
    (IF pc = "returned" /\ call[1]["fn"] = "generate_optimized_content"
     THEN {<<ret, ret[1]["product_id"], payloads[1]>>}
     ELSE {})
    \cup (IF call = None
          THEN {<<results[k]["optimization"], results[k]["product_id"], payloads[k]>> :
                  k \in 1..Len(payloads)}
          ELSE {})

\* the update keys of the optimized fields that are set
SetFields(optimization) ==
    IF optimization = None THEN {}
    ELSE (IF optimization[1]["optimized_description"] # None THEN {"description"} ELSE {})
         \cup (IF optimization[1]["optimized_seo_title"] # None THEN {"seo_title"} ELSE {})
         \cup (IF optimization[1]["optimized_seo_description"] # None
               THEN {"seo_description"} ELSE {})

\* C7: export_for_shopify returns None when there is no optimization or no optimized
\* field is set, hence for a product without issues; otherwise the product id and
\* updates holding exactly the set fields with their optimized values, never empty.
C7_ExportPayload ==
    /\ \A o \in ExportObservations :
        LET set == SetFields(o[1])
            payload == o[3]
        IN  /\ (payload = None) = (set = {})
            /\ payload # None =>
                   /\ payload[1]["product_id"] = o[2]
                   /\ DOMAIN payload[1]["updates"] = set
                   /\ DOMAIN payload[1]["updates"] # {}
                   /\ \A f \in set :
                          payload[1]["updates"][f] = o[1][1]["optimized_" \o f][1]
    /\ call = None =>
           \A k \in 1..Len(payloads) :
               results[k]["audit"]["issues_found"] = 0 => payloads[k] = None

\* C7 witness: an optimization with no field set was exported as None
C7_Witness ==
    /\ pc = "returned"
    /\ call[1]["fn"] = "generate_optimized_content"
    /\ SetFields(ret) = {}
    /\ payloads = <<None>>

\* the number of issues over a list of results
RECURSIVE TotalIssues(_, _)
TotalIssues(all, k) ==
    IF k > Len(all) THEN 0 ELSE Len(all[k]["audit"]["issues"]) + TotalIssues(all, k + 1)

\* the sum of a histogram over the five levels
HistogramTotal(h) == h["none"] + h["low"] + h["medium"] + h["high"] + h["critical"]

\* C8: the statistics of a batch report the batch size, the number of results with
\* issues as products_with_issues and as products_optimized (the number of results
\* with an optimization), the sum of issues_found, a histogram over all five
\* priority levels that sums to the batch size, and the completion rate "100.0%" for
\* a non-empty batch and "0.0%" for an empty one.
C8_Statistics ==
    stats # None =>
        LET st == stats[1]
            with_issues == {k \in 1..Len(results) : results[k]["audit"]["issues_found"] > 0}
        IN  /\ Len(results) = Len(products)
            /\ st["total_products_processed"] = Len(products)
            /\ st["products_with_issues"] = Cardinality(with_issues)
            /\ st["products_optimized"] = Cardinality(with_issues)
            /\ st["products_optimized"] =
                   Cardinality({k \in 1..Len(results) : results[k]["optimization"] # None})
            /\ st["total_issues_found"] = TotalIssues(results, 1)
            /\ DOMAIN st["priority_breakdown"] = {"critical", "high", "medium", "low", "none"}
            /\ \A p \in DOMAIN st["priority_breakdown"] :
                   st["priority_breakdown"][p] =
                       Cardinality({k \in 1..Len(results) : results[k]["priority"] = p})
            /\ HistogramTotal(st["priority_breakdown"]) = Len(products)
            /\ st["completion_rate"] = (IF Len(products) > 0 THEN "100.0%" ELSE "0.0%")

\* C8 witness: the statistics of three products, one of them without issues
C8_Witness ==
    /\ stats # None
    /\ Len(products) = 3
    /\ stats[1]["total_products_processed"] = 3
    /\ stats[1]["products_optimized"] = 2
    /\ stats[1]["priority_breakdown"]["none"] = 1
    /\ stats[1]["completion_rate"] = "100.0%"

\* the <<type, severity>> of the issues of a list whose type starts with seo_description
RECURSIVE SeoDescriptionIssues(_)
SeoDescriptionIssues(issues) ==
    IF Len(issues) = 0 THEN << >>
    ELSE (IF Len(Head(issues)["type"]) >= 15
             /\ SubSeq(Head(issues)["type"], 1, 15) = "seo_description"
          THEN <<<<Head(issues)["type"], Head(issues)["severity"]>>>>
          ELSE << >>)
         \o SeoDescriptionIssues(Tail(issues))

\* C9: the audit reports at most one SEO-description issue: seo_description_missing
\* (high) for the empty text, seo_description_short (medium) for 1 to 79 characters,
\* seo_description_long (low) for more than 160, and none for 80 to 160.
C9_SeoDescriptionTiers ==
    call = None =>
        \A k \in 1..Len(results) :
            LET n == Len(Get(products[k], "seo_description", ""))
                found == SeoDescriptionIssues(results[k]["audit"]["issues"])
            IN  /\ Len(found) <= 1
                /\ n = 0 => found = <<<<"seo_description_missing", "high">>>>
                /\ n >= 1 /\ n <= 79 => found = <<<<"seo_description_short", "medium">>>>
                /\ n > 160 => found = <<<<"seo_description_long", "low">>>>
                /\ n >= 80 /\ n <= 160 => found = << >>

\* C9 witness: an SEO description of exactly 160 characters was audited without an
\* SEO-description issue
C9_Witness ==
    /\ call = None
    /\ Len(results) = 1
    /\ Len(Get(products[1], "seo_description", "")) = 160
    /\ SeoDescriptionIssues(results[1]["audit"]["issues"]) = << >>

\* whether an issue list has an issue of a type with a severity
HasIssue(issues, type, severity) ==
    \E j \in 1..Len(issues) : issues[j]["type"] = type /\ issues[j]["severity"] = severity

\* whether a text is empty or made of whitespace only
Blank(text) == \A i \in 1..Len(text) : SubSeq(text, i, i) \in {" ", "\t", "\n", "\r", "\f"}

\* C10: missing_description (critical) is reported iff the description is empty or
\* whitespace-only, on top of description_length: an empty description has both
\* missing_description (critical) and description_length (high).
C10_MissingDescriptionLayered ==
    call = None =>
        \A k \in 1..Len(results) :
            LET description == Get(products[k], "description", "")
                issues == results[k]["audit"]["issues"]
            IN  /\ (\E j \in 1..Len(issues) : issues[j]["type"] = "missing_description")
                       = Blank(description)
                /\ Blank(description) => HasIssue(issues, "missing_description", "critical")
                /\ description = "" =>
                       /\ HasIssue(issues, "missing_description", "critical")
                       /\ HasIssue(issues, "description_length", "high")

\* C10 witness: an empty description was audited with both issues
C10_Witness ==
    /\ call = None
    /\ Len(results) = 1
    /\ Get(products[1], "description", "") = ""
    /\ HasIssue(results[1]["audit"]["issues"], "missing_description", "critical")
    /\ HasIssue(results[1]["audit"]["issues"], "description_length", "high")

\* the issues of a list that have a type
IssuesOfType(issues, type) == SelectSeq(issues, LAMBDA i : i["type"] = type)

\* C11: description_length (high) is reported iff the description has fewer than 100
\* characters: exactly 100 characters do not trigger it and 99 do.
C11_DescriptionLengthBoundary ==
    call = None =>
        \A k \in 1..Len(results) :
            LET n == Len(Get(products[k], "description", ""))
                found == IssuesOfType(results[k]["audit"]["issues"], "description_length")
            IN  /\ n < 100 => Len(found) = 1 /\ found[1]["severity"] = "high"
                /\ n >= 100 => found = << >>

\* C11 witness: a description of exactly 100 characters was audited without
\* description_length next to one of 99 characters audited with it
C11_Witness ==
    /\ call = None
    /\ Len(results) = 2
    /\ Len(Get(products[1], "description", "")) = 100
    /\ ~HasIssue(results[1]["audit"]["issues"], "description_length", "high")
    /\ Len(Get(products[2], "description", "")) = 99
    /\ HasIssue(results[2]["audit"]["issues"], "description_length", "high")

\* C12: for every product, the issues_found field of audit_product's result equals
\* the number of entries of its issues list.
C12_IssuesFoundIsLength ==
    call = None =>
        \A k \in 1..Len(results) :
            results[k]["audit"]["issues_found"]
                = Cardinality(DOMAIN results[k]["audit"]["issues"])

\* C12 witness: an audit that found several issues, two of them of one severity,
\* next to an audit that found none
C12_Witness ==
    /\ call = None
    /\ Len(results) = 2
    /\ results[1]["audit"]["issues_found"] = 7
    /\ Len(results[1]["audit"]["issues"]) = 7
    /\ Cardinality(Severities(results[1]["audit"]["issues"])) < 7
    /\ results[2]["audit"]["issues_found"] = 0
    /\ results[2]["audit"]["issues"] = << >>

\* C13: process_products returns exactly one result per input product, in input
\* order (result k has the id of product k), and each product's result is the one
\* of processing that product alone, whatever else is in the batch and wherever.
C13_OneResultPerProductInOrder ==
    (call = None /\ pc = "processed") =>
        /\ Len(results) = Len(products)
        /\ \A k \in 1..Len(products) :
            /\ results[k]["product_id"] = products[k]["id"]
            /\ results[k] = process_products(<<products[k]>>)[1]
        /\ \A j, k \in 1..Len(products) :
            products[j] = products[k] => results[j] = results[k]

\* C13 witness: a batch of three with one product at both ends and another between
\* was processed into three results in that order
C13_Witness ==
    /\ call = None
    /\ Len(products) = 3
    /\ Len(results) = 3
    /\ products[1] = products[3]
    /\ products[1]["id"] # products[2]["id"]
    /\ <<results[1]["product_id"], results[2]["product_id"], results[3]["product_id"]>>
           = <<products[1]["id"], products[2]["id"], products[3]["id"]>>
    /\ results[1] = results[3]
    /\ results[1]["priority"] # results[2]["priority"]

\* the product of the worked example, whatever its id
IsOrganicFaceCream(product) ==
    /\ product["title"] = "Organic Face Cream"
    /\ Get(product, "description", "") = "Good cream for your face. Made with natural stuff."
    /\ Get(product, "seo_title", "") = ""
    /\ Get(product, "seo_description", "") = ""
    /\ Get(product, "vendor", "") = "LuxeBeauty"
    /\ Get(product, "product_type", "") = "Skincare"

\* C15: processing the product "Organic Face Cream" with the description "Good cream
\* for your face. Made with natural stuff.", no SEO title and no SEO description
\* yields issues that include description_length, vague_language (naming good and
\* stuff), seo_title, seo_description_missing, tone_not_premium and missing_cta,
\* the priority high, and an optimization with all three optimized fields set and
\* three improvements made.
C15_OrganicFaceCream ==
    call = None =>
        \A k \in 1..Len(results) :
            IsOrganicFaceCream(products[k]) =>
                LET issues == results[k]["audit"]["issues"]
                    vague == IssuesOfType(issues, "vague_language")
                    optimization == results[k]["optimization"]
                IN  /\ {"description_length", "vague_language", "seo_title",
                        "seo_description_missing", "tone_not_premium", "missing_cta"}
                           \subseteq {issues[j]["type"] : j \in 1..Len(issues)}
                    /\ Len(vague) = 1
                    /\ vague[1]["message"] = "Contains vague terms: good, stuff"
                    /\ results[k]["priority"] = "high"
                    /\ optimization # None
                    /\ optimization[1]["optimized_description"] # None
                    /\ optimization[1]["optimized_seo_title"] # None
                    /\ optimization[1]["optimized_seo_description"] # None
                    /\ Len(optimization[1]["improvements_made"]) = 3

\* C15 witness: the mock catalogue, whose first product is that one, was processed
C15_Witness ==
    /\ call = None
    /\ products = get_mock_products
    /\ Len(results) = 2
    /\ IsOrganicFaceCream(products[1])
    /\ results[1]["priority"] = "high"
    /\ Len(results[1]["optimization"][1]["improvements_made"]) = 3

\* every <<product, optimization>> that generate_optimized_content has related: in a
\* call of its own and in the results of the batch
SynthesisObservations ==
    (IF pc \in {"generated", "returned"} /\ call[1]["fn"] = "generate_optimized_content"
     THEN {<<call[1]["product"], ret[1]>>}
     ELSE {})
    \cup {<<products[k], results[k]["optimization"][1]>> :
            k \in {j \in 1..Len(results) : results[j]["optimization"] # None}}

\* the content category of a title: 1 cream, 2 serum, 3 generic
TitleCategory(title) ==
    IF \E i \in 1..Len(title) - 4 : lower(SubSeq(title, i, i + 4)) = "cream" THEN 1
    ELSE IF \E i \in 1..Len(title) - 4 : lower(SubSeq(title, i, i + 4)) = "serum" THEN 2
    ELSE 3

\* the key benefit of the SEO title, by content category
KeyBenefit == <<"Nourishing & Anti-Aging", "Professional Anti-Aging Treatment", "Premium Quality">>

SeoDescriptionTemplate(title) ==
    <<"Experience premium " \o lower(title) \o " with natural ingredients. "
          \o "Nourishes, protects, and rejuvenates your skin. Shop our luxury skincare collection.",
      "Professional-grade " \o lower(title) \o " delivers powerful anti-aging results. "
          \o "Reduce fine lines and restore radiance. Premium quality guaranteed.",
      "Discover our premium " \o lower(title) \o " - exceptional quality and results. "
          \o "Trusted by customers worldwide. Shop now for exclusive offers.">>[TitleCategory(title)]

\* C17: for every product the synthesized SEO description has between 120 and 160
\* characters: a template result of more than 160 characters is replaced by its
\* first 157 characters followed by "...", a shorter one is returned unchanged.
C17_Original ==
    \A o \in SynthesisObservations :
        o[2]["optimized_seo_description"] # None =>
            LET template == SeoDescriptionTemplate(Get(o[1], "title", ""))
                seo_desc == o[2]["optimized_seo_description"][1]
            IN  /\ Len(seo_desc) >= 120
                /\ Len(seo_desc) <= 160
                /\ Len(template) > 160 => seo_desc = SubSeq(template, 1, 157) \o "..."
                /\ Len(template) <= 160 => seo_desc = template

\* the content categories (1 cream/skincare, 2 serum, 3 generic) whose wording a
\* generated description, SEO title and SEO description carry
DescriptionCategories(text) ==
    {c \in 1..3 : Contains(<<"\n\nExperience transformative results with our carefully ",
                             "\n\nThis professional-grade serum delivers powerful ",
                             "\n\nMeticulously designed to deliver exceptional results, ">>[c], text)}
SeoTitleCategories(text) ==
    {c \in 1..3 : Contains(" | " \o KeyBenefit[c], text)}
SeoDescriptionCategories(text) ==
    {c \in 1..3 : startswith(text, <<"Experience premium ", "Professional-grade ",
                                     "Discover our premium ">>[c])}

\* the synthesis calls in which all three builders ran, each with the categories of
\* what the builders returned
FullSyntheses ==
    {[product |-> o[1],
      description |-> DescriptionCategories(o[2]["optimized_description"][1]),
      seo_title |-> SeoTitleCategories(o[2]["optimized_seo_title"][1]),
      seo_description |-> SeoDescriptionCategories(o[2]["optimized_seo_description"][1])] :
        o \in {x \in SynthesisObservations :
                   /\ x[2]["optimized_description"] # None
                   /\ x[2]["optimized_seo_title"] # None
                   /\ x[2]["optimized_seo_description"] # None}}

\* C18 as stated: the three builders choose by the same title-substring rule, so in
\* one synthesis call all three pick the same content category.
C18_Original ==
    \A s \in FullSyntheses :
        LET c == TitleCategory(Get(s["product"], "title", ""))
        IN  s["description"] = {c} /\ s["seo_title"] = {c} /\ s["seo_description"] = {c}

\* whether a product type names skin care
IsSkincareType(product_type) ==
    \E i \in 1..Len(product_type) - 7 : lower(SubSeq(product_type, i, i + 7)) = "skincare"

\* C18: the SEO title and the SEO description choose by the same title-substring
\* rule and always pick the same category; the description paragraph follows that
\* rule too, except that a product type containing "skincare" gives it the
\* cream/skincare paragraph whatever the title.
C18_SharedClassifierButProductType ==
    \A s \in FullSyntheses :
        LET c == TitleCategory(Get(s["product"], "title", ""))
        IN  /\ s["seo_title"] = {c}
            /\ s["seo_description"] = {c}
            /\ s["description"]
                   = {IF IsSkincareType(Get(s["product"], "product_type", "")) THEN 1 ELSE c}

\* C18 witness: a serum of product type Skincare got the cream/skincare paragraph
\* next to the serum SEO title and SEO description
C18_Witness ==
    \E s \in FullSyntheses :
        /\ Get(s["product"], "title", "") = "Anti-Aging Serum Premium Formula"
        /\ Get(s["product"], "product_type", "") = "Skincare"
        /\ s["description"] = {1}
        /\ s["seo_title"] = {2}
        /\ s["seo_description"] = {2}

\* whether a product lacks its id or its title
Malformed(product) == {"id", "title"} \ DOMAIN product # {}

\* C19: a product that lacks its id or its title makes processing fail instead of
\* being skipped: on a batch that holds one, at any position, process_products
\* raises and hands back no result list, so nothing is reported or exported either.
C19_MalformedProductFails ==
    (call = None /\ \E k \in 1..Len(products) : Malformed(products[k])) =>
        /\ results = << >>
        /\ stats = None
        /\ payloads = << >>
        /\ filtered = None
        /\ pc \in {"loaded", "failed"}
        /\ pc = "failed" =>
               raised = IF min_priority = None \/ min_priority[1] \in DOMAIN Rank
                        THEN "KeyError" ELSE "ValueError"

\* C19 witness: process_products raised on a batch whose third product has no id,
\* after two well-formed products
C19_Witness ==
    /\ call = None
    /\ Len(products) = 3
    /\ ~Malformed(products[1])
    /\ ~Malformed(products[2])
    /\ "id" \notin DOMAIN products[3]
    /\ pc = "failed"
    /\ min_priority = None
    /\ raised = "KeyError"
    /\ results = << >>

\* a product with each optional text field it lacks set to the empty string
WithEmptyTexts(product) ==
    [k \in DOMAIN product \cup {"description", "seo_title", "seo_description"} |->
        IF k \in DOMAIN product THEN product[k] ELSE ""]

\* C20: a product whose description, seo_title or seo_description is missing is
\* audited and synthesized exactly as if that field were the empty string and never
\* causes an error: a batch of products that all have id and title is processed
\* without raising, whatever their fields hold.
C20_MissingTextIsEmpty ==
    (call = None /\ \A k \in 1..Len(products) : ~Malformed(products[k])) =>
        /\ raised \in {"", "ValueError"}
        /\ raised = "ValueError" => min_priority # None /\ min_priority[1] \notin DOMAIN Rank
        /\ pc = "processed" =>
               /\ Len(results) = Len(products)
               /\ \A k \in 1..Len(results) :
                      results[k] = process_products(<<WithEmptyTexts(products[k])>>)[1]
        /\ pc = "done" =>
               \A j \in 1..Len(filtered[1]) :
                   \E k \in 1..Len(products) :
                       filtered[1][j] = process_products(<<WithEmptyTexts(products[k])>>)[1]

\* C20 witness: a product that has none of the three fields was processed, with the
\* issues and the optimization of empty fields
C20_Witness ==
    /\ call = None
    /\ Len(results) = 1
    /\ DOMAIN products[1] \cap {"description", "seo_title", "seo_description"} = {}
    /\ raised = ""
    /\ {"missing_description", "seo_title", "seo_description_missing"}
           \subseteq TypeSet(results[1]["audit"]["issues"])
    /\ results[1]["optimization"][1]["original_description"] = ""
    /\ results[1]["optimization"][1]["optimized_seo_description"] # None

\* the place of an issue type in the fixed check order, 0 for a type that has none
CheckOrder(type) ==
    IF type = "description_length" THEN 1
    ELSE IF type = "missing_description" THEN 2
    ELSE IF type = "vague_language" THEN 3
    ELSE IF type = "seo_title" THEN 4
    ELSE IF type \in {"seo_description_missing", "seo_description_short",
                      "seo_description_long"} THEN 5
    ELSE IF type = "tone_not_premium" THEN 6
    ELSE IF type = "missing_cta" THEN 7
    ELSE IF type = "missing_benefits" THEN 8
    ELSE 0

\* C21: in every audit result the issues appear in the fixed check order
\* description_length, missing_description, vague_language, seo_title,
\* seo_description_(missing|short|long), tone_not_premium, missing_cta,
\* missing_benefits, each place taken at most once: a type earlier in the order never
\* comes after a later one.
C21_FixedCheckOrder ==
    call = None =>
        \A k \in 1..Len(results) :
            LET issues == results[k]["audit"]["issues"]
            IN  /\ \A j \in 1..Len(issues) : CheckOrder(issues[j]["type"]) > 0
                /\ \A i, j \in 1..Len(issues) :
                       i < j => CheckOrder(issues[i]["type"]) < CheckOrder(issues[j]["type"])

\* C21 witness: an audit with seven issues, one of every check but the missing
\* description, in the check order
C21_Witness ==
    /\ call = None
    /\ Len(results) = 1
    /\ [j \in 1..Len(results[1]["audit"]["issues"]) |-> results[1]["audit"]["issues"][j]["type"]]
           = <<"description_length", "vague_language", "seo_title", "seo_description_short",
               "tone_not_premium", "missing_cta", "missing_benefits">>

\* the note of each optimized field, in trigger-evaluation order
ImprovementNotes ==
    <<<<"optimized_description", "Rewrote product description with premium tone">>,
      <<"optimized_seo_title", "Created SEO-optimized title">>,
      <<"optimized_seo_description", "Created SEO meta description">>>>

\* the notes of the fields of an optimization that are set, from note k on
RECURSIVE NotesFrom(_, _)
NotesFrom(optimization, k) ==
    IF k > Len(ImprovementNotes) THEN << >>
    ELSE (IF optimization[ImprovementNotes[k][1]] # None
          THEN <<ImprovementNotes[k][2]>> ELSE << >>)
         \o NotesFrom(optimization, k + 1)

\* C22: improvements_made holds exactly one note per regenerated field and nothing
\* else, in the order description note, SEO title note, SEO description note; its
\* length is the number of optimized fields that are set.
C22_ImprovementNotes ==
    \A o \in SynthesisObservations :
        /\ o[2]["improvements_made"] = NotesFrom(o[2], 1)
        /\ Len(o[2]["improvements_made"]) = Cardinality(SetFields(Some(o[2])))

\* C22 witness: a synthesis that regenerated the description and the SEO title but
\* not the SEO description made those two notes, in that order
C22_Witness ==
    \E o \in SynthesisObservations :
        /\ o[2]["optimized_description"] # None
        /\ o[2]["optimized_seo_title"] # None
        /\ o[2]["optimized_seo_description"] = None
        /\ o[2]["improvements_made"]
               = <<"Rewrote product description with premium tone", "Created SEO-optimized title">>

\* C23: every issue type the auditor emits triggers at least one synthesized field
\* and every synthesized field is a non-empty string, so for every result of the
\* pipeline export_for_shopify returns a payload, with at least one update, iff
\* issues_found > 0: an optimization without a regenerated field never comes out of
\* the pipeline.
C23_IssuesAlwaysExported ==
    /\ \A o \in GeneratorObservations :
           /\ (\E j \in 1..Len(o[1]) : CheckOrder(o[1][j]["type"]) > 0)
                  => SetFields(Some(o[2])) # {}
           /\ \A f \in SetFields(Some(o[2])) :
                  Len(o[2]["optimized_" \o f]) = 1 /\ Len(o[2]["optimized_" \o f][1]) > 0
    /\ call = None =>
           /\ \A k \in 1..Len(results) :
                  /\ (results[k]["optimization"] # None)
                         = (results[k]["audit"]["issues_found"] > 0)
                  /\ results[k]["optimization"] # None
                         => SetFields(results[k]["optimization"]) # {}
           /\ \A k \in 1..Len(payloads) :
                  /\ (payloads[k] # None) = (results[k]["audit"]["issues_found"] > 0)
                  /\ payloads[k] # None =>
                         /\ DOMAIN payloads[k][1]["updates"] # {}
                         /\ \A f \in DOMAIN payloads[k][1]["updates"] :
                                Len(payloads[k][1]["updates"][f]) > 0

\* C23 witness: a product whose only issue is a long SEO description was exported
\* with that one update, after a product without issues exported as None
C23_Witness ==
    /\ call = None
    /\ Len(payloads) = 2
    /\ results[1]["audit"]["issues_found"] = 0
    /\ payloads[1] = None
    /\ TypeSet(results[2]["audit"]["issues"]) = {"seo_description_long"}
    /\ payloads[2] # None
    /\ DOMAIN payloads[2][1]["updates"] = {"seo_description"}

\* C24: for every result of the pipeline the priority never ranks below the audit
\* severity, is none iff issues_found is 0, and differs from the severity only when
\* the severity is medium and issues_found >= 5, where it is high; an audit of
\* severity low has at most 2 issues, so the count thresholds never lift it above
\* the priority low.
C24_PriorityFollowsSeverity ==
    call = None =>
        \A k \in 1..Len(results) :
            LET severity == results[k]["audit"]["severity"]
                issues_found == results[k]["audit"]["issues_found"]
                priority == results[k]["priority"]
            IN  /\ Rank[priority] >= Rank[severity]
                /\ (priority = "none") = (issues_found = 0)
                /\ priority # severity =>
                       severity = "medium" /\ issues_found >= 5 /\ priority = "high"
                /\ (severity = "medium" /\ issues_found >= 5) => priority = "high"
                /\ severity = "low" => issues_found <= 2 /\ priority = "low"

\* C24 witness: an audit of severity medium with five issues got the priority high
C24_Witness ==
    /\ call = None
    /\ Len(results) = 1
    /\ results[1]["audit"]["severity"] = "medium"
    /\ results[1]["audit"]["issues_found"] = 5
    /\ results[1]["priority"] = "high"

\* C25 as stated: the pipeline converges in one round: once every product has got
\* the description, seo_title and seo_description of its export payload, processing
\* the updated products again finds zero issues, gives the priority none and exports
\* no payload.
C25_Original ==
    (call = None /\ pc = "reprocessed") =>
        \A k \in 1..Len(results) :
            /\ results[k]["audit"]["issues_found"] = 0
            /\ results[k]["priority"] = "none"
            /\ payloads[k] = None
=============================================================================
